---- MODULE Spec2Model ----
(***************************************************************************)
(* Model of the tropykus-js transaction pipeline (src/src/cToken.ts):     *)
(* supply, redeem, borrow and repayBorrow on one client instance, with    *)
(* the chain client (eth.read / eth.trx) as the environment.              *)
(*                                                                         *)
(* Symbols are sequences of tokens: the market prefix "c" is one token,   *)
(* so "c" + asset is <<"c">> \o asset, asset[0] is Head(asset) and        *)
(* asset.slice(1) is Tail(asset).  Amount texts are sequences of          *)
(* characters, parsed digit by digit as ethers' parseUnits does.  An      *)
(* optional value is a sequence of length 0 or 1.                         *)
(***************************************************************************)
EXTENDS Integers, Sequences, FiniteSets, TLC

VARIABLES
    network,        \* instance._network: <<>> until the provider's network is known
    options,        \* the caller's options object (supply writes into it)
    allowance,      \* chain: allowance(caller -> market) of the underlying token
    approveTx,      \* state of the approval transaction of the running invocation
    pc,             \* position of the running invocation
    op,             \* operation invoked
    asset,          \* argument `asset`
    inputAmount,    \* argument `amount` as given by the caller
    borrower,       \* argument `borrower` (repayBorrow)
    amount,         \* local `amount` once scaled
    approvalValue,  \* local `approvalValue` / approval target
    method,         \* local `method`
    reads,          \* eth.read calls of the running invocation, with results
    writes,         \* eth.trx calls of the running invocation
    outcome,        \* how the invocation ended
    handle,         \* index in `writes` of the transaction handed to the caller, else 0
    given,          \* the options object as the caller passed it
    procs,          \* invocations in flight at once (specification SpecConc)
    api,            \* a getUserBalance request (specification SpecApi)
    networkPromise, \* instance._networkPromise is present
    marketsCall     \* an enterMarkets / exitMarket call (specification SpecMarkets)

vars == <<network, options, allowance, approveTx, pc, op, asset, inputAmount,
          borrower, amount, approvalValue, method, reads, writes, outcome, handle,
          given, procs, api, networkPromise, marketsCall>>

\* what a step of one invocation of the pipeline never touches
frame == <<given, procs, api, networkPromise, marketsCall>>

-----------------------------------------------------------------------------
(* Bounds of the model *)

\* uint256 is scaled down to UintBits bits
UintBits == 8

\* every token has TokenDecimals decimals (18 on chain)
TokenDecimals == 1

\* a positive borrow balance the chain may report
SomeDebt == 3

-----------------------------------------------------------------------------
(* Registry: constants.ts *)

RBTC == <<"RBTC">>
DOC == <<"DOC">>
cETH == <<"c", "ETH">>
cRBTC == <<"c", "RBTC">>
cDOC == <<"c", "DOC">>

underlyings == {RBTC, DOC}

cTokens == {cRBTC, cDOC}

ChainId == 30

getNetNameWithChainId(id) == IF id = 30 THEN "rsk_mainnet" ELSE "rsk_testnet"

\* address[networkName][contractName]: <<>> when the table has no such key
address(net, name) ==
    IF net = "rsk_mainnet" /\ name \in cTokens \cup {DOC, <<"Comptroller">>}
    THEN <<[net |-> net, name |-> name]>>
    ELSE <<>>

decimals(name) == IF name \in underlyings \cup cTokens THEN <<TokenDecimals>> ELSE <<>>

abi_cEther == "cEther"
abi_cErc20 == "cErc20"
abi_Comptroller == "Comptroller"

\* an ABI the caller passes as options.abi
abi_custom == "custom"

\* ethers.constants.MaxUint256
MaxUint256 == 2 ^ UintBits - 1

userAddress == "0xCa11e7"

-----------------------------------------------------------------------------
(* Amounts: ethers.utils.parseUnits and ethers.BigNumber.from *)

Digits == <<"0", "1", "2", "3", "4", "5", "6", "7", "8", "9">>

IsDigit(c) == \E i \in 1..10 : Digits[i] = c

DigitVal(c) == (CHOOSE i \in 1..10 : Digits[i] = c) - 1

RECURSIVE DigitsVal(_)
DigitsVal(s) == IF s = <<>> THEN 0
                ELSE DigitsVal(SubSeq(s, 1, Len(s) - 1)) * 10 + DigitVal(s[Len(s)])

AllDigits(s) == \A i \in 1..Len(s) : IsDigit(s[i])

Pow10(n) == 10 ^ n

Thrown == [ok |-> FALSE, val |-> 0]

Ok(v) == [ok |-> TRUE, val |-> v]

\* position of the decimal point, 0 when there is none
DotAt(s) == IF \E i \in 1..Len(s) : s[i] = "."
            THEN CHOOSE i \in 1..Len(s) : s[i] = "." /\ \A j \in 1..(i - 1) : s[j] # "."
            ELSE 0

\* ethers.utils.parseUnits(text, d): whole * 10^d + fraction padded to d digits
parseUnits(text, d) ==
    LET neg == text # <<>> /\ Head(text) = "-"
        body == IF neg THEN Tail(text) ELSE text
        dot == DotAt(body)
        whole == IF dot = 0 THEN body ELSE SubSeq(body, 1, dot - 1)
        frac == IF dot = 0 THEN <<>> ELSE SubSeq(body, dot + 1, Len(body))
        mag == DigitsVal(whole) * Pow10(d) + DigitsVal(frac) * Pow10(d - Len(frac))
    IN  IF body = <<>> \/ ~AllDigits(whole) \/ ~AllDigits(frac) \/ Len(frac) > d
           \/ (whole = <<>> /\ frac = <<>>)
        THEN Thrown
        ELSE Ok(IF neg THEN 0 - mag ELSE mag)

\* ethers.BigNumber.from(text): integer texts only
BigNumberFrom(text) ==
    LET neg == text # <<>> /\ Head(text) = "-"
        body == IF neg THEN Tail(text) ELSE text
    IN  IF body = <<>> \/ ~AllDigits(body)
        THEN Thrown
        ELSE Ok(IF neg THEN 0 - DigitsVal(body) ELSE DigitsVal(body))

\* mutant: the type of the amount is not checked
validAmountType_any(a) == a.type \in {"number", "string", "BigNumber", "other"}

\* typeof amount is "number" or "string", or BigNumber.isBigNumber(amount)
validAmountType(a) == a.type \in {"number", "string", "BigNumber"}

\* mutant: the mantissa option is ignored
scale_always(a, mantissa, name) ==
    parseUnits(a.text, IF decimals(name) = <<>> THEN 18 ELSE decimals(name)[1])

\* the scaling block shared by the four operations:
\*   if (!options.mantissa) amount = parseUnits(amount.toString(), decimals[asset]);
\*   amount = BigNumber.from(amount.toString());
\* parseUnits falls back to 18 decimals when decimals[asset] is undefined
scale(a, mantissa, name) ==
    IF mantissa
    THEN BigNumberFrom(a.text)
    ELSE parseUnits(a.text, IF decimals(name) = <<>> THEN 18 ELSE decimals(name)[1])

-----------------------------------------------------------------------------
(* Caller inputs *)

Text(t) == [type |-> "string", text |-> t]

Num(t) == [type |-> "number", text |-> t]

Big(t) == [type |-> "BigNumber", text |-> t]

\* an `amount` that is neither number, string nor BigNumber (undefined, an object)
NotAnAmount == [type |-> "other", text |-> <<>>]

Amounts == {NotAnAmount, Text(<<"1">>), Text(<<"1", ".", "0">>), Num(<<"2">>),
            Text(<<"1", ".", "5">>),
            Num(<<"-", "1">>), Text(<<"-", "1">>), Big(<<"-", "1">>),
            Text(<<"-", "1", ".", "0">>)}

Assets == {RBTC, DOC, cRBTC, cDOC, <<"XYZ">>, <<>>}

Null == [kind |-> "null"]

OtherAccount == [kind |-> "address"]

NotAnAddress == [kind |-> "text"]

EmptyText == [kind |-> "empty"]

Borrowers == {Null, OtherAccount, NotAnAddress, EmptyText}

\* ethers.utils.isAddress(borrower)
isAddress(b) == b.kind = "address"

\* JavaScript truthiness of `borrower`
truthy(b) == b.kind \in {"address", "text"}

Ops == {"supply", "redeem", "borrow", "repayBorrow"}

FreshOptions(m) == [mantissa |-> m, abi |-> "none", value |-> <<>>, provider |-> FALSE]

-----------------------------------------------------------------------------
(* Chain client: eth.read and eth.trx *)

netName == getNetNameWithChainId(network[1])

\* eth.read(address, method, parameters, options): logged when issued
readCall(to, m, args, o) ==
    Append(reads, [to |-> to, method |-> m, args |-> args, abi |-> o.abi, result |-> <<>>])

\* the result of the read that was awaited
readReturn(r) == [reads EXCEPT ![Len(reads)].result = <<r>>]

\* eth.trx(address, method, parameters, options): logged when issued
trxCall(to, m, args, o, sent) ==
    Append(writes, [to |-> to, method |-> m, args |-> args, abi |-> o.abi,
                    value |-> o.value, sent |-> sent,
                    approvalAtDispatch |-> approveTx])

\* ethers encodes a uint256 argument or a value: a number outside the type is
\* rejected before anything is sent
encodable(sent, v) == sent => (v >= 0 /\ v <= MaxUint256)

\* values a read of a balance may return around the amount `a`
around(a) == {v \in {0, a - 1, a, a + 1} : v >= 0}

Throw(e) ==
    /\ pc' = "done"
    /\ UNCHANGED handle
    /\ outcome' = e
    /\ UNCHANGED <<frame, network, options, allowance, approveTx, op, asset, inputAmount,
                   borrower, amount, approvalValue, method, reads, writes>>

\* mutant: the handle of the first transaction is handed to the caller
Return_first(sent) ==
    /\ pc' = "done"
    /\ outcome' = IF sent THEN "returned" ELSE "ChainWriteError"
    /\ handle' = IF sent THEN 1 ELSE 0

\* `return eth.trx(...)`: the promise of the final write is the operation's result
Return(sent) ==
    /\ pc' = "done"
    /\ outcome' = IF sent THEN "returned" ELSE "ChainWriteError"
    /\ handle' = IF sent THEN Len(writes') ELSE 0

-----------------------------------------------------------------------------
(* Client instance: index.ts *)

Procs == {1, 2}

\* no invocation in flight
NoInvocation ==
    [pc |-> "idle", op |-> "supply", target |-> 0, early |-> FALSE, lookup |-> <<>>,
     allowanceRead |-> <<>>, approve |-> "none", final |-> "none"]

\* no enterMarkets or exitMarket call in flight
NoMarketsCall ==
    [pc |-> "idle", op |-> "enterMarkets", input |-> [type |-> "other", names |-> <<>>],
     markets |-> <<>>, outcome |-> "none", writes |-> <<>>]

\* no request to the indexing service
NoRequest ==
    [pc |-> "idle", user |-> <<>>, chainId |-> 0, url |-> "", lookup |-> "none",
     userId |-> <<>>, settled |-> "pending", error |-> "", value |-> <<>>]

Init ==
    /\ network = <<>>
    /\ options = FreshOptions(FALSE)
    /\ allowance = 0
    /\ approveTx = "none"
    /\ pc = "idle"
    /\ op = "supply"
    /\ asset = RBTC
    /\ inputAmount = NotAnAmount
    /\ borrower = Null
    /\ amount = 0
    /\ approvalValue = 0
    /\ method = ""
    /\ reads = <<>>
    /\ writes = <<>>
    /\ outcome = "none"
    /\ handle = 0
    /\ given = options
    /\ procs = [p \in Procs |-> NoInvocation]
    /\ api = NoRequest
    /\ networkPromise = TRUE
    /\ marketsCall = NoMarketsCall

\* mutant: the network is set and the promise is left on the instance
ResolveNetwork_keepsPromise ==
    /\ networkPromise
    /\ network' = <<ChainId>>
    /\ UNCHANGED <<networkPromise, given, procs, api, marketsCall, options, allowance,
                   approveTx, pc, op, asset, inputAmount, borrower, amount, approvalValue,
                   method, reads, writes, outcome, handle>>

\* .then((network) => { delete instance._networkPromise; instance._network = network; })
ResolveNetwork ==
    /\ networkPromise
    /\ network' = <<ChainId>>
    /\ networkPromise' = FALSE
    /\ UNCHANGED <<given, procs, api, marketsCall, options, allowance, approveTx, pc, op,
                   asset, inputAmount, borrower, amount, approvalValue, method, reads,
                   writes, outcome, handle>>

\* the caller invokes an operation, with a new options object or the one of
\* the previous call
Call ==
    /\ pc = "idle"
    /\ \E o \in Ops, a \in Assets, n \in Amounts, b \in Borrowers,
          m \in BOOLEAN, abi \in {"none", abi_custom}, reuse \in BOOLEAN :
        /\ o # "repayBorrow" => b = Null
        /\ reuse => (m = options.mantissa /\ abi = "none")
        /\ op' = o
        /\ asset' = a
        /\ inputAmount' = n
        /\ borrower' = b
        /\ options' = IF reuse THEN options ELSE [FreshOptions(m) EXCEPT !.abi = abi]
    /\ given' = options'
    /\ pc' = "netId"
    /\ approveTx' = "none"
    /\ approvalValue' = 0
    /\ UNCHANGED <<procs, api, networkPromise, marketsCall, network, allowance, amount,
                   method, reads, writes, outcome, handle>>

\* the promise of the operation settles: the caller has the result or the
\* error, and the locals of the invocation are gone
Settle ==
    /\ pc = "done"
    /\ pc' = "idle"
    /\ op' = "supply"
    /\ asset' = RBTC
    /\ inputAmount' = NotAnAmount
    /\ borrower' = Null
    /\ amount' = 0
    /\ method' = ""
    /\ reads' = <<>>
    /\ writes' = <<>>
    /\ outcome' = "none"
    /\ handle' = 0
    /\ given' = options
    /\ approveTx' = IF approveTx = "pending" THEN "pending" ELSE "none"
    /\ approvalValue' = IF approveTx = "pending" THEN approvalValue ELSE 0
    /\ UNCHANGED <<procs, api, networkPromise, marketsCall, network, options, allowance>>

-----------------------------------------------------------------------------
(* supply: cToken.ts 105-196 *)

\* mutant: only cETH counts as native
isNativeMarket_cETH(cTokenName) == cTokenName = cETH

\* cTokenName === constants.cETH || cTokenName === constants.cRBTC
isNativeMarket(cTokenName) == cTokenName = cETH \/ cTokenName = cRBTC

\* mutant: the comparison is turned around
notEnough_gt(allow, target) == allow > target

\* mutant: lte instead of lt
notEnough_lte(allow, target) == allow <= target

\* const notEnough = allowance.lt(target)
notEnough(allow, target) == allow < target

\* mutant: the comparison is turned around
hasOutstandingBorrow_lt(borrowBalance) == borrowBalance < 0

\* borrowBalance.gt(0)
hasOutstandingBorrow(borrowBalance) == borrowBalance > 0

\* mutant: the approval is not awaited
supply_waitSkipped == approveTx \in {"pending", "mined", "reverted"}

\* `await approveTx.wait()`: resumes when the approval is mined, throws when it reverted
supply_waitOver == approveTx \in {"mined", "reverted"}

\* lines 188-195: parameters, options.value and the mint write
supply_mint ==
    LET cTokenName == <<"c">> \o asset
        native == isNativeMarket(cTokenName)
        opts == IF native THEN [options EXCEPT !.value = <<amount>>] ELSE options
        parameters == IF native THEN <<>> ELSE <<amount>>
    IN  \E sent \in BOOLEAN :
          /\ encodable(sent, amount)
          /\ options' = opts
          /\ writes' = trxCall(address(netName, cTokenName), "mint", parameters, opts, sent)
          /\ Return(sent)

\* lines 110-158: validation, scaling, ABI selection, borrowBalanceStored read issued
supply_netId ==
    /\ pc = "netId" /\ op = "supply" /\ network # <<>>
    /\ LET cTokenName == <<"c">> \o asset
           cTokenAddress == address(netName, cTokenName)
           scaled == scale(inputAmount, options.mantissa, asset)
           opts == [options EXCEPT
                      !.abi = IF isNativeMarket(cTokenName) THEN abi_cEther ELSE abi_cErc20,
                      !.provider = TRUE]
       IN  IF cTokenAddress = <<>> \/ asset \notin underlyings
           THEN Throw("UnsupportedAssetError")
           ELSE IF ~validAmountType(inputAmount)
           THEN Throw("InvalidAmountError")
           ELSE IF ~scaled.ok
           THEN Throw("NumericFault")
           ELSE /\ amount' = scaled.val
                /\ options' = opts
                /\ reads' = readCall(cTokenAddress, "borrowBalanceStored", <<userAddress>>, opts)
                /\ pc' = "supply_borrowBalanceStored"
                /\ UNCHANGED <<frame, network, allowance, approveTx, op, asset, inputAmount,
                               borrower, approvalValue, method, writes, outcome, handle>>

\* lines 153-172 and, on a native market, 188-195
supply_borrowBalanceStored ==
    /\ pc = "supply_borrowBalanceStored"
    /\ \E borrowBalance \in {0, SomeDebt} :
         LET cTokenName == <<"c">> \o asset
         IN  IF hasOutstandingBorrow(borrowBalance)
             THEN /\ reads' = readReturn(borrowBalance)
                  /\ pc' = "done"
                  /\ UNCHANGED handle
                  /\ outcome' = "OutstandingBorrowError"
                  /\ UNCHANGED <<frame, network, options, allowance, approveTx, op, asset,
                                 inputAmount, borrower, amount, approvalValue, method,
                                 writes>>
             ELSE IF ~isNativeMarket(cTokenName)
             THEN /\ reads' = Append(readReturn(borrowBalance),
                                     [to |-> address(netName, asset), method |-> "allowance",
                                      args |-> <<userAddress, address(netName, cTokenName)>>,
                                      abi |-> options.abi, result |-> <<>>])
                  /\ pc' = "supply_allowance"
                  /\ UNCHANGED <<frame, network, options, allowance, approveTx, op, asset,
                                 inputAmount, borrower, amount, approvalValue, method,
                                 writes, outcome, handle>>
             ELSE /\ reads' = readReturn(borrowBalance)
                  /\ supply_mint
                  /\ UNCHANGED <<frame, network, allowance, approveTx, op, asset, inputAmount,
                                 borrower, amount, approvalValue, method>>

\* lines 167-185, and 188-195 when the allowance is enough
supply_allowance ==
    /\ pc = "supply_allowance"
    /\ reads' = readReturn(allowance)
    /\ LET cTokenName == <<"c">> \o asset
       IN  IF notEnough(allowance, amount)
           THEN \E sent \in BOOLEAN :
                  /\ encodable(sent, amount)
                  /\ writes' = trxCall(address(netName, asset), "approve",
                                       <<address(netName, cTokenName), amount>>, options, sent)
                  /\ approvalValue' = amount
                  /\ approveTx' = IF sent THEN "pending" ELSE "failed"
                  /\ pc' = IF sent THEN "supply_wait" ELSE "done"
                  /\ UNCHANGED handle
                  /\ outcome' = IF sent THEN outcome ELSE "ChainWriteError"
                  /\ UNCHANGED <<frame, network, options, allowance, op, asset, inputAmount,
                                 borrower, amount, method>>
           ELSE /\ supply_mint
                /\ UNCHANGED <<frame, network, allowance, approveTx, op, asset, inputAmount,
                               borrower, amount, approvalValue, method>>

\* lines 184-195: the approval's wait() is over, then the mint write
supply_wait ==
    /\ pc = "supply_wait"
    /\ supply_waitOver
    /\ IF approveTx = "reverted"
       THEN Throw("TransactionRevertedError")
       ELSE /\ supply_mint
            /\ UNCHANGED <<frame, network, allowance, approveTx, op, asset, inputAmount,
                           borrower, amount, approvalValue, method, reads>>

-----------------------------------------------------------------------------
(* redeem: cToken.ts 227-304 *)

\* const assetIsCToken = asset[0] === "c"
assetIsCToken(a) == a # <<>> /\ Head(a) = "c"

redeem_cTokenName(a) == IF assetIsCToken(a) THEN a ELSE <<"c">> \o a

redeem_underlyingName(a) == IF assetIsCToken(a) THEN Tail(a) ELSE a

\* mutant: the two entry points are swapped
redeem_method_swapped(a) == IF assetIsCToken(a) THEN "redeemUnderlying" ELSE "redeem"

\* method = "redeem" for the market-token form, "redeemUnderlying" otherwise
redeem_method(a) == IF assetIsCToken(a) THEN "redeem" ELSE "redeemUnderlying"

\* the position read: balanceOf for the market-token form, balanceOfUnderlying otherwise
redeem_balanceMethod(a) == IF assetIsCToken(a) THEN "balanceOf" ELSE "balanceOfUnderlying"

\* mutant: gte instead of gt
redeem_tooMuch_gte(amt, balance) == amt >= balance

\* amount.gt(balance)
redeem_tooMuch(amt, balance) == amt > balance

\* { ...options, _compoundProvider, abi: cTokenName === constants.cETH ? cEther : cErc20 }
redeem_trxOptions ==
    [options EXCEPT !.provider = TRUE,
                    !.abi = IF redeem_cTokenName(asset) = cETH THEN abi_cEther ELSE abi_cErc20]

\* lines 232-298: validation, scaling and the position read issued
redeem_netId ==
    /\ pc = "netId" /\ op = "redeem" /\ network # <<>>
    /\ LET cTokenName == redeem_cTokenName(asset)
           scaled == scale(inputAmount, options.mantissa, asset)
       IN  IF Len(asset) < 1
           THEN Throw("InvalidAssetError")
           ELSE IF cTokenName \notin cTokens \/ redeem_underlyingName(asset) \notin underlyings
           THEN Throw("UnsupportedAssetError")
           ELSE IF ~validAmountType(inputAmount)
           THEN Throw("InvalidAmountError")
           ELSE IF ~scaled.ok
           THEN Throw("NumericFault")
           ELSE /\ amount' = scaled.val
                /\ method' = redeem_method(asset)
                /\ reads' = readCall(address(netName, cTokenName), redeem_balanceMethod(asset),
                                     <<userAddress>>, redeem_trxOptions)
                /\ pc' = "redeem_balance"
                /\ UNCHANGED <<frame, network, options, allowance, approveTx, op, asset,
                               inputAmount, borrower, approvalValue, writes, outcome, handle>>

\* lines 283-303: the balance check and the redeem write
redeem_balance ==
    /\ pc = "redeem_balance"
    /\ \E balance \in around(amount) :
         /\ reads' = readReturn(balance)
         /\ IF redeem_tooMuch(amount, balance)
            THEN /\ pc' = "done"
                 /\ UNCHANGED handle
                 /\ outcome' = "InsufficientBalanceError"
                 /\ UNCHANGED writes
            ELSE \E sent \in BOOLEAN :
                   /\ encodable(sent, amount)
                   /\ writes' = trxCall(address(netName, redeem_cTokenName(asset)), method,
                                        <<amount>>, redeem_trxOptions, sent)
                   /\ Return(sent)
    /\ UNCHANGED <<frame, network, options, allowance, approveTx, op, asset, inputAmount,
                   borrower, amount, approvalValue, method>>

-----------------------------------------------------------------------------
(* borrow: cToken.ts 341-408 *)

\* accountLiquidity[2].gt(0)
inLiquidationZone(shortfall) == shortfall > 0

\* mutant: lte instead of lt
insufficientCollateral_lte(liquidity, amt) == liquidity <= amt

\* accountLiquidity[1].lt(amount)
insufficientCollateral(liquidity, amt) == liquidity < amt

\* { _compoundProvider, abi: abi.Comptroller, ...options }
compCallOptions ==
    [options EXCEPT !.provider = TRUE,
                    !.abi = IF options.abi = "none" THEN abi_Comptroller ELSE options.abi]

\* { ...options, _compoundProvider }, then trxOptions.abi = ...
borrow_trxOptions ==
    [options EXCEPT !.provider = TRUE,
                    !.abi = IF <<"c">> \o asset = cETH THEN abi_cEther ELSE abi_cErc20]

\* lines 346-394: validation, scaling and the getAccountLiquidity read issued
borrow_netId ==
    /\ pc = "netId" /\ op = "borrow" /\ network # <<>>
    /\ LET cTokenName == <<"c">> \o asset
           scaled == scale(inputAmount, options.mantissa, asset)
       IN  IF address(netName, cTokenName) = <<>> \/ asset \notin underlyings
           THEN Throw("UnsupportedAssetError")
           ELSE IF ~validAmountType(inputAmount)
           THEN Throw("InvalidAmountError")
           ELSE IF ~scaled.ok
           THEN Throw("NumericFault")
           ELSE /\ amount' = scaled.val
                /\ reads' = readCall(address(netName, <<"Comptroller">>), "getAccountLiquidity",
                                     <<userAddress>>, compCallOptions)
                /\ pc' = "borrow_getAccountLiquidity"
                /\ UNCHANGED <<frame, network, options, allowance, approveTx, op, asset,
                               inputAmount, borrower, approvalValue, method, writes,
                               outcome, handle>>

\* mutant: the borrow write is dispatched before the collateral checks
borrow_dispatchFirst ==
    /\ pc = "borrow_getAccountLiquidity"
    /\ \E liquidity \in around(amount), shortfall \in {0, 1} :
         /\ reads' = readReturn(<<0, liquidity, shortfall>>)
         /\ writes' = trxCall(address(netName, <<"c">> \o asset), "borrow",
                              <<amount>>, borrow_trxOptions, TRUE)
         /\ pc' = "done"
         /\ UNCHANGED handle
         /\ outcome' = IF inLiquidationZone(shortfall) THEN "LiquidationRiskError"
                       ELSE IF insufficientCollateral(liquidity, amount)
                       THEN "InsufficientCollateralError"
                       ELSE "returned"
    /\ UNCHANGED <<frame, network, options, allowance, approveTx, op, asset, inputAmount,
                   borrower, amount, approvalValue, method>>

\* lines 395-407: the two collateral checks and the borrow write
borrow_getAccountLiquidity ==
    /\ pc = "borrow_getAccountLiquidity"
    /\ \E liquidity \in around(amount), shortfall \in {0, 1} :
         /\ reads' = readReturn(<<0, liquidity, shortfall>>)
         /\ IF inLiquidationZone(shortfall)
            THEN /\ pc' = "done"
                 /\ UNCHANGED handle
                 /\ outcome' = "LiquidationRiskError"
                 /\ UNCHANGED writes
            ELSE IF insufficientCollateral(liquidity, amount)
            THEN /\ pc' = "done"
                 /\ UNCHANGED handle
                 /\ outcome' = "InsufficientCollateralError"
                 /\ UNCHANGED writes
            ELSE \E sent \in BOOLEAN :
                   /\ encodable(sent, amount)
                   /\ writes' = trxCall(address(netName, <<"c">> \o asset), "borrow",
                                        <<amount>>, borrow_trxOptions, sent)
                   /\ Return(sent)
    /\ UNCHANGED <<frame, network, options, allowance, approveTx, op, asset, inputAmount,
                   borrower, amount, approvalValue, method>>

-----------------------------------------------------------------------------
(* repayBorrow: cToken.ts 450-551 *)

\* ethers.utils.isAddress(borrower) ? "repayBorrowBehalf" : "repayBorrow"
repayBorrow_method(b) == IF isAddress(b) THEN "repayBorrowBehalf" ELSE "repayBorrow"

\* mutant: the borrower is never rejected
invalidBorrower_never(b) == truthy(b) /\ repayBorrow_method(b) = "none"

\* borrower && method === "repayBorrow"
invalidBorrower(b) == truthy(b) /\ repayBorrow_method(b) = "repayBorrow"

\* inputAmount.toString() === "-1"
repayAll(a) == a.text = <<"-", "1">>

\* lines 510-515: the amount of the final call
repayBorrow_amount(a, scaled) == IF repayAll(a) THEN MaxUint256 ELSE scaled

\* mutant: the approval target follows the substituted amount
repayBorrow_approvalValue_max(a, scaled, borrowBalance) ==
    IF repayAll(a) THEN MaxUint256 ELSE scaled

\* lines 510-515: the approval target
repayBorrow_approvalValue(a, scaled, borrowBalance) ==
    IF repayAll(a) THEN borrowBalance + 1 ELSE scaled

\* lines 497-501 and 518-521
repayBorrow_trxOptions(amt) ==
    IF isNativeMarket(<<"c">> \o asset)
    THEN [options EXCEPT !.provider = TRUE, !.abi = abi_cEther, !.value = <<amt>>]
    ELSE [options EXCEPT !.provider = TRUE, !.abi = abi_cErc20]

\* lines 517-523
repayBorrow_parameters(amt) ==
    (IF method = "repayBorrowBehalf" THEN <<borrower>> ELSE <<>>)
        \o (IF isNativeMarket(<<"c">> \o asset) THEN <<>> ELSE <<amt>>)

\* `approvalTx.wait();` is called without await: the operation goes on as soon as
\* the approval has been submitted
repayBorrow_waitOver == approveTx \in {"pending", "mined", "reverted"}

\* line 550: the final write
repayBorrow_final(amt) ==
    \E sent \in BOOLEAN :
      /\ encodable(sent, amt)
      /\ writes' = trxCall(address(netName, <<"c">> \o asset), method,
                           repayBorrow_parameters(amt), repayBorrow_trxOptions(amt), sent)
      /\ Return(sent)

\* lines 456-508: validation, entry point, scaling, borrowBalanceStored read issued
repayBorrow_netId ==
    /\ pc = "netId" /\ op = "repayBorrow" /\ network # <<>>
    /\ LET cTokenName == <<"c">> \o asset
           scaled == scale(inputAmount, options.mantissa, asset)
       IN  IF address(netName, cTokenName) = <<>> \/ asset \notin underlyings
           THEN Throw("UnsupportedAssetError")
           ELSE IF ~validAmountType(inputAmount)
           THEN Throw("InvalidAmountError")
           ELSE IF invalidBorrower(borrower)
           THEN Throw("InvalidAddressError")
           ELSE IF ~scaled.ok
           THEN Throw("NumericFault")
           ELSE /\ method' = repayBorrow_method(borrower)
                /\ amount' = scaled.val
                /\ reads' = readCall(address(netName, cTokenName), "borrowBalanceStored",
                                     <<userAddress>>,
                                     [options EXCEPT !.provider = TRUE, !.abi = abi_cErc20])
                /\ pc' = "repayBorrow_borrowBalanceStored"
                /\ UNCHANGED <<frame, network, options, allowance, approveTx, op, asset,
                               inputAmount, borrower, approvalValue, writes, outcome, handle>>

\* lines 503-534 and, on a native market, 550
repayBorrow_borrowBalanceStored ==
    /\ pc = "repayBorrow_borrowBalanceStored"
    /\ \E borrowBalance \in {0, SomeDebt} :
         /\ approvalValue' = repayBorrow_approvalValue(inputAmount, amount, borrowBalance)
         /\ amount' = repayBorrow_amount(inputAmount, amount)
         /\ IF isNativeMarket(<<"c">> \o asset)
            THEN /\ reads' = readReturn(borrowBalance)
                 /\ repayBorrow_final(repayBorrow_amount(inputAmount, amount))
            ELSE /\ reads' = Append(readReturn(borrowBalance),
                                    [to |-> address(netName, asset), method |-> "allowance",
                                     args |-> <<userAddress,
                                                address(netName, <<"c">> \o asset)>>,
                                     abi |-> abi_cErc20, result |-> <<>>])
                 /\ pc' = "repayBorrow_allowance"
                 /\ UNCHANGED <<writes, outcome, handle>>
    /\ UNCHANGED <<frame, network, options, allowance, approveTx, op, asset, inputAmount,
                   borrower, method>>

\* lines 529-545, and 550 when the allowance is enough
repayBorrow_allowance ==
    /\ pc = "repayBorrow_allowance"
    /\ reads' = readReturn(allowance)
    /\ IF notEnough(allowance, approvalValue)
       THEN \E sent \in BOOLEAN :
              /\ encodable(sent, approvalValue)
              /\ writes' = trxCall(address(netName, asset), "approve",
                                   <<address(netName, <<"c">> \o asset), approvalValue>>,
                                   repayBorrow_trxOptions(amount), sent)
              /\ approveTx' = IF sent THEN "pending" ELSE "failed"
              /\ pc' = IF sent THEN "repayBorrow_approve" ELSE "done"
              /\ UNCHANGED handle
              /\ outcome' = IF sent THEN outcome ELSE "ChainWriteError"
              /\ UNCHANGED amount
       ELSE /\ UNCHANGED <<amount, approveTx>>
            /\ repayBorrow_final(amount)
    /\ UNCHANGED <<frame, network, options, allowance, op, asset, inputAmount, borrower,
                   approvalValue, method>>

\* lines 540-550: the approval was submitted, then the final write
repayBorrow_approve ==
    /\ pc = "repayBorrow_approve"
    /\ repayBorrow_waitOver
    /\ UNCHANGED amount
    /\ repayBorrow_final(amount)
    /\ UNCHANGED <<frame, network, options, allowance, approveTx, op, asset, inputAmount,
                   borrower, approvalValue, method, reads>>

-----------------------------------------------------------------------------
(* Chain: the pending approval is mined or reverts *)

MineApproval ==
    /\ approveTx = "pending"
    /\ approveTx' = "mined"
    /\ allowance' = approvalValue
    /\ UNCHANGED <<frame, network, options, pc, op, asset, inputAmount, borrower, amount,
                   approvalValue, method, reads, writes, outcome, handle>>

RevertApproval ==
    /\ approveTx = "pending"
    /\ approveTx' = "reverted"
    /\ UNCHANGED <<frame, network, options, allowance, pc, op, asset, inputAmount, borrower,
                   amount, approvalValue, method, reads, writes, outcome, handle>>

-----------------------------------------------------------------------------
Next ==
    \/ ResolveNetwork
    \/ Call
    \/ Settle
    \/ supply_netId
    \/ supply_borrowBalanceStored
    \/ supply_allowance
    \/ supply_wait
    \/ redeem_netId
    \/ redeem_balance
    \/ borrow_netId
    \/ borrow_getAccountLiquidity
    \/ repayBorrow_netId
    \/ repayBorrow_borrowBalanceStored
    \/ repayBorrow_allowance
    \/ repayBorrow_approve
    \/ MineApproval
    \/ RevertApproval

Spec == Init /\ [][Next]_vars

-----------------------------------------------------------------------------
(* Properties *)

ValidationErrors ==
    {"UnsupportedAssetError", "InvalidAssetError", "InvalidAmountError",
     "InvalidAddressError", "OutstandingBorrowError", "InsufficientBalanceError",
     "LiquidationRiskError", "InsufficientCollateralError"}

running == pc \notin {"idle", "netId"}

approveWrites == {i \in 1..Len(writes) : writes[i].method = "approve"}

finalWrites == {i \in 1..Len(writes) : writes[i].method # "approve"}

\* the result of the n-th read, when it has returned
returned(n) == Len(reads) >= n /\ reads[n].result # <<>>

\* the scaled form of the caller's amount
scaledInput == scale(inputAmount, options.mantissa, asset).val

\* C1: in supply on a token market, an allowance read smaller than the scaled
\* amount is followed by an approve write, and the mint write is dispatched
\* only once that approval has been mined.
C1_SupplyMintAfterApprovalMined ==
    (running /\ op = "supply" /\ asset = DOC) =>
        /\ (returned(2) /\ reads[2].result[1] < scaledInput) =>
              (approveWrites = {1} /\ writes[1].args[2] = scaledInput)
        /\ \A i \in finalWrites :
              (approveWrites # {}) =>
                  (i = 2 /\ writes[i].approvalAtDispatch = "mined" /\ approveTx = "mined")

C1_Witness ==
    /\ pc = "done" /\ op = "supply" /\ asset = DOC /\ outcome = "returned"
    /\ Len(writes) = 2
    /\ writes[1].method = "approve"
    /\ writes[2].method = "mint"
    /\ reads[2].result[1] < amount

\* C2: in repayBorrow on a token market, the final repayBorrow or
\* repayBorrowBehalf write is dispatched only once the approval that was
\* issued has been mined.
C2_RepayAfterApprovalMined ==
    (running /\ op = "repayBorrow" /\ asset = DOC) =>
        \A i \in finalWrites :
            (approveWrites # {}) => writes[i].approvalAtDispatch = "mined"

\* C3: an operation that ends with a validation or pre-condition error has
\* issued no chain write, neither an approve nor a final call.
C3_NoWriteOnValidationError ==
    (pc = "done" /\ outcome \in ValidationErrors) => writes = <<>>

C3_Witness ==
    /\ pc = "done" /\ op = "borrow" /\ outcome = "InsufficientCollateralError"
    /\ returned(1)
    /\ writes = <<>>

\* C4: supply fails with the outstanding-borrow error whenever the borrow
\* balance read is positive, on native and token markets alike, before the
\* allowance read and before any write; with a balance of 0 it goes on.
C4_SupplyOutstandingBorrow ==
    (running /\ op = "supply" /\ returned(1)) =>
        /\ reads[1].method = "borrowBalanceStored"
        /\ reads[1].result[1] > 0 =>
              (pc = "done" /\ outcome = "OutstandingBorrowError"
                 /\ Len(reads) = 1 /\ writes = <<>>)
        /\ reads[1].result[1] = 0 =>
              /\ outcome # "OutstandingBorrowError"
              /\ asset = DOC => (Len(reads) = 2 /\ reads[2].method = "allowance")
              /\ asset = RBTC => (pc = "done" /\ finalWrites = {1})

C4_Witness ==
    /\ pc = "done" /\ op = "supply" /\ asset = DOC
    /\ outcome = "OutstandingBorrowError"
    /\ reads[1].result = <<SomeDebt>>
    /\ scaledInput > 0

\* C5: supply on a native-currency market with no borrow balance issues
\* exactly one write, mint with no arguments and value equal to the scaled
\* amount, and neither reads the allowance nor approves.
C5_NativeSupplyOneWrite ==
    (running /\ op = "supply" /\ asset = RBTC /\ returned(1)
       /\ reads[1].result[1] = 0) =>
        /\ pc = "done"
        /\ Len(reads) = 1
        /\ Len(writes) = 1
        /\ writes[1].method = "mint"
        /\ writes[1].args = <<>>
        /\ writes[1].value = <<scaledInput>>
        /\ writes[1].to = address(netName, cRBTC)

C5_Witness ==
    /\ pc = "done" /\ op = "supply" /\ asset = RBTC /\ outcome = "returned"
    /\ Len(writes) = 1
    /\ writes[1].value = <<Pow10(TokenDecimals)>>
    /\ inputAmount = Text(<<"1">>)

\* C6: redeem reads balanceOf for the market-token form and
\* balanceOfUnderlying otherwise; a scaled amount above that position fails
\* with the insufficient-balance error and no write, an amount up to the
\* position (the position itself included) is dispatched.
C6_RedeemBalanceCheck ==
    (running /\ op = "redeem" /\ reads # <<>>) =>
        /\ Len(reads) = 1
        /\ reads[1].method = (IF Head(asset) = "c" THEN "balanceOf"
                              ELSE "balanceOfUnderlying")
        /\ reads[1].args = <<userAddress>>
        /\ returned(1) =>
              /\ pc = "done"
              /\ scaledInput > reads[1].result[1] =>
                    (outcome = "InsufficientBalanceError" /\ writes = <<>>)
              /\ scaledInput <= reads[1].result[1] =>
                    (outcome # "InsufficientBalanceError" /\ Len(writes) = 1)

C6_Witness ==
    /\ pc = "done" /\ op = "redeem" /\ outcome = "returned"
    /\ reads[1].result = <<scaledInput>>
    /\ Len(writes) = 1
    /\ scaledInput > 0

\* C7: redeem dispatches 'redeem' exactly for the market-token form and
\* 'redeemUnderlying' exactly for the underlying form, to the market contract
\* both forms share, with the scaled amount as the only argument.
C7_RedeemEntryPoint ==
    (running /\ op = "redeem") =>
        \A i \in 1..Len(writes) :
            /\ writes[i].method \in {"redeem", "redeemUnderlying"}
            /\ writes[i].method = "redeem" <=> Head(asset) = "c"
            /\ writes[i].method = "redeemUnderlying" <=> asset \in underlyings
            /\ writes[i].to = address(netName, <<"c", asset[Len(asset)]>>)
            /\ writes[i].args = <<scaledInput>>

C7_Witness ==
    /\ pc = "done" /\ op = "redeem" /\ asset = cDOC /\ outcome = "returned"
    /\ writes[1].method = "redeem"
    /\ writes[1].to = address(netName, <<"c">> \o DOC)

\* C8: borrow with a positive shortfall fails with the liquidation-risk error
\* whatever the amount; with no shortfall and liquidity below the scaled
\* amount it fails with the insufficient-collateral error; neither case
\* writes; otherwise exactly one borrow write carries the scaled amount.
C8_BorrowCollateralChecks ==
    (running /\ op = "borrow" /\ returned(1)) =>
        LET liquidity == reads[1].result[1][2]
            shortfall == reads[1].result[1][3]
        IN  /\ pc = "done"
            /\ shortfall > 0 => (outcome = "LiquidationRiskError" /\ writes = <<>>)
            /\ (shortfall = 0 /\ liquidity < scaledInput) =>
                  (outcome = "InsufficientCollateralError" /\ writes = <<>>)
            /\ (shortfall = 0 /\ liquidity >= scaledInput) =>
                  /\ outcome \in {"returned", "ChainWriteError"}
                  /\ Len(writes) = 1
                  /\ writes[1].method = "borrow"
                  /\ writes[1].args = <<scaledInput>>

C8_Witness ==
    /\ pc = "done" /\ op = "borrow" /\ outcome = "LiquidationRiskError"
    /\ reads[1].result[1][3] > 0
    /\ reads[1].result[1][2] >= scaledInput
    /\ scaledInput > 0

\* the amount carried by a final repay write: the value on a native market,
\* the last argument otherwise
repaidAmount(w) == IF asset = RBTC THEN w.value[1] ELSE w.args[Len(w.args)]

\* C9: repayBorrow with the amount -1 dispatches the maximum unsigned integer
\* in the final call and compares the allowance with, and approves, the
\* borrow balance read plus one; any other amount is approved as scaled.
C9_RepayAllSentinel ==
    (running /\ op = "repayBorrow" /\ returned(1)) =>
        LET all == inputAmount.text = <<"-", "1">>
            target == IF all THEN reads[1].result[1] + 1 ELSE scaledInput
        IN  /\ \A i \in finalWrites :
                  repaidAmount(writes[i]) = IF all THEN MaxUint256 ELSE scaledInput
            /\ \A i \in approveWrites : writes[i].args[2] = target
            /\ returned(2) => (approveWrites # {} <=> reads[2].result[1] < target)

C9_Witness ==
    /\ pc = "done" /\ op = "repayBorrow" /\ asset = DOC /\ outcome = "returned"
    /\ inputAmount = Num(<<"-", "1">>)
    /\ Len(writes) = 2
    /\ writes[1].method = "approve"
    /\ writes[1].args[2] = SomeDebt + 1
    /\ writes[2].args = <<MaxUint256>>

\* C10: repayBorrow with a borrower that is set and is no address fails with
\* the invalid-address error before any read or write; a valid borrower
\* address selects repayBorrowBehalf with the borrower as first argument; no
\* borrower selects repayBorrow without a borrower argument.
C10_RepayBorrower ==
    (running /\ op = "repayBorrow") =>
        /\ borrower = NotAnAddress =>
              /\ pc = "done" /\ reads = <<>> /\ writes = <<>>
              /\ outcome \in {"UnsupportedAssetError", "InvalidAmountError",
                              "InvalidAddressError"}
              /\ (asset \in underlyings /\ inputAmount # NotAnAmount) =>
                    outcome = "InvalidAddressError"
        /\ \A i \in finalWrites :
              /\ borrower = OtherAccount =>
                    /\ writes[i].method = "repayBorrowBehalf"
                    /\ Len(writes[i].args) = (IF asset = RBTC THEN 1 ELSE 2)
                    /\ writes[i].args[1] = borrower
              /\ borrower \in {Null, EmptyText} =>
                    /\ writes[i].method = "repayBorrow"
                    /\ Len(writes[i].args) = (IF asset = RBTC THEN 0 ELSE 1)

C10_Witness ==
    /\ pc = "done" /\ op = "repayBorrow" /\ borrower = NotAnAddress
    /\ asset = DOC /\ inputAmount = Text(<<"1">>)
    /\ outcome = "InvalidAddressError"
    /\ reads = <<>> /\ writes = <<>>

\* C12: a failed approval, at submission or at mining, ends supply and
\* repayBorrow with that failure: no final write follows it, and no approval
\* or final write is issued twice in one invocation.
C12_ApprovalFailureIsFatal ==
    (running /\ op \in {"supply", "repayBorrow"}) =>
        /\ approveTx \in {"failed", "reverted"} =>
              /\ finalWrites = {}
              /\ pc = "done" =>
                    outcome \in {"ChainWriteError", "TransactionRevertedError"}
        /\ Cardinality(approveWrites) <= 1
        /\ Cardinality(finalWrites) <= 1

\* the approval target of the running supply or repayBorrow
approvalTarget ==
    IF op = "repayBorrow" /\ inputAmount.text = <<"-", "1">>
    THEN reads[1].result[1] + 1
    ELSE scaledInput

\* C13: supply and repayBorrow approve exactly when the allowance read is
\* strictly below the approval target; the approval is for that target, with
\* the market contract as spender, never for the maximum integer.
C13_ApproveIffInsufficient ==
    /\ approveWrites # {} => (op \in {"supply", "repayBorrow"} /\ asset = DOC)
    /\ (running /\ op \in {"supply", "repayBorrow"} /\ asset = DOC /\ returned(2)) =>
          /\ approveWrites # {} <=> reads[2].result[1] < approvalTarget
          /\ \A i \in approveWrites :
                /\ writes[i].to = address(netName, DOC)
                /\ writes[i].args = <<address(netName, cDOC), approvalTarget>>
                /\ approvalTarget < MaxUint256

C13_Witness ==
    /\ pc = "done" /\ op = "repayBorrow" /\ asset = DOC /\ outcome = "returned"
    /\ reads[2].result = <<approvalTarget>>
    /\ approvalTarget > 0
    /\ Len(writes) = 1
    /\ writes[1].method = "repayBorrow"

\* ten times the natural value the text of an amount denotes
naturalTimes10(a) ==
    CASE a.text = <<"1">> -> 10
      [] a.text = <<"1", ".", "0">> -> 10
      [] a.text = <<"2">> -> 20
      [] a.text = <<"1", ".", "5">> -> 15
      [] a.text = <<"-", "1">> -> 0 - 10
      [] a.text = <<"-", "1", ".", "0">> -> 0 - 10

\* the amount a write carries: the approved amount, the value attached on a
\* native market, the last argument otherwise
writeAmount(w) ==
    IF w.method = "approve" THEN w.args[2]
    ELSE IF asset = RBTC /\ op \in {"supply", "repayBorrow"} THEN w.value[1]
    ELSE w.args[Len(w.args)]

\* C14: every amount sent on chain is the scaled form: the natural amount
\* times 10^decimals without the mantissa option, the amount as given with
\* it (repayBorrow's sentinel -1, which stands for no amount, apart).
C14_AmountsAreScaled ==
    (running /\ ~(op = "repayBorrow" /\ inputAmount.text = <<"-", "1">>)) =>
        \A i \in 1..Len(writes) :
            writeAmount(writes[i]) =
                IF given.mantissa
                THEN naturalTimes10(inputAmount) \div 10
                ELSE naturalTimes10(inputAmount) * Pow10(TokenDecimals - 1)

C14_Witness ==
    /\ pc = "done" /\ op = "supply" /\ asset = RBTC /\ outcome = "returned"
    /\ inputAmount = Text(<<"1", ".", "0">>)
    /\ ~given.mantissa
    /\ writes[1].value = <<Pow10(TokenDecimals)>>

\* the asset names a market the operation knows
resolvable ==
    IF op = "redeem" THEN asset \in {RBTC, DOC, cRBTC, cDOC} ELSE asset \in {RBTC, DOC}

\* C15: an asset that resolves to no market is rejected as unsupported (an
\* empty name, in redeem, as not a name), and with a resolvable asset an
\* amount of the wrong type is rejected as invalid, each before any read or
\* write.
C15_InputsRejectedFirst ==
    (running /\ (~resolvable \/ inputAmount = NotAnAmount)) =>
        /\ pc = "done"
        /\ reads = <<>>
        /\ writes = <<>>
        /\ outcome = IF resolvable THEN "InvalidAmountError"
                     ELSE IF op = "redeem" /\ asset = <<>> THEN "InvalidAssetError"
                     ELSE "UnsupportedAssetError"

C15_Witness ==
    /\ pc = "done" /\ op = "borrow" /\ asset = DOC /\ inputAmount = NotAnAmount
    /\ outcome = "InvalidAmountError"
    /\ reads = <<>>

\* C17: an ABI the caller passes as options.abi is the ABI of the final write.
C17_CallerAbiOverrides ==
    (running /\ given.abi = abi_custom) =>
        \A i \in finalWrites : writes[i].abi = abi_custom

\* C18: an invocation leaves the caller's options object as it was passed, so
\* that the mint of a token-market supply never carries a value.
C18_OptionsUntouched ==
    running =>
        /\ options = given
        /\ (op = "supply" /\ asset = DOC) =>
              \A i \in finalWrites : writes[i].value = <<>>

\* C20: supply reads the borrow balance, then on a token market the
\* allowance, then approves and waits if needed, then mints; each step
\* starts when the one before it is over, and the caller gets the handle of
\* the mint.
C20_SupplyOrder ==
    (running /\ op = "supply") =>
        /\ Len(reads) <= (IF asset = DOC THEN 2 ELSE 1)
        /\ reads # <<>> => reads[1].method = "borrowBalanceStored"
        /\ Len(reads) = 2 => (reads[2].method = "allowance" /\ reads[1].result = <<0>>)
        /\ writes # <<>> =>
              /\ Len(reads) = (IF asset = DOC THEN 2 ELSE 1)
              /\ \A n \in 1..Len(reads) : returned(n)
        /\ approveWrites \subseteq {1}
        /\ finalWrites \subseteq {Len(writes)}
        /\ \A i \in finalWrites :
              /\ writes[i].method = "mint"
              /\ i = 2 => writes[i].approvalAtDispatch = "mined"
        /\ outcome = "returned" <=> handle # 0
        /\ handle # 0 => (handle = Len(writes) /\ writes[handle].method = "mint")

C20_Witness ==
    /\ pc = "done" /\ op = "supply" /\ asset = DOC /\ outcome = "returned"
    /\ Len(reads) = 2
    /\ Len(writes) = 2
    /\ writes[1].method = "approve"
    /\ handle = 2

\* ---------------------------------------------------------------------
\* Invocations in flight together on one instance, for one caller and the
\* DOC market: each process p runs one operation, procs[p] holding its
\* position and what it has seen and sent.

\* largest approval target of an invocation
MaxTarget == 2

\* the operations that begin with `await netId(this)`
ConcOps == {"supply", "redeem", "borrow", "repayBorrow", "getUserBorrows",
            "enterMarkets", "exitMarket", "getAccountLiquidity"}

\* the variables of the single invocation and of the API client
single == <<options, approveTx, pc, op, asset, inputAmount, borrower, amount,
            approvalValue, method, reads, writes, outcome, handle, given, api,
            networkPromise, marketsCall>>

\* netId(instance): over once the promise of the constructor has set _network
networkKnown == network # <<>>

\* a caller starts an operation, perhaps before the network is known
conc_Call(p) ==
    /\ procs[p].pc = "idle"
    /\ \E o \in ConcOps, t \in 1..MaxTarget :
          procs' = [procs EXCEPT ![p] = [NoInvocation EXCEPT !.pc = "netId", !.op = o,
                                                            !.target = t,
                                                            !.early = ~networkKnown]]
    /\ UNCHANGED <<single, network, allowance>>

\* mutant: the address is looked up without `await netId(this)`
conc_netId_noAwait(p) ==
    /\ procs[p].pc = "netId"
    /\ procs' = [procs EXCEPT ![p].lookup = <<network>>,
                              ![p].pc = IF procs[p].op \in {"supply", "repayBorrow"}
                                        THEN "borrowBalanceStored" ELSE "chain"]
    /\ UNCHANGED <<single, network, allowance>>

\* await netId(this); ... address[getNetNameWithChainId(this._network.id)][...]
\* (arguments the operation rejects before its lookup end it there)
conc_netId(p) ==
    /\ procs[p].pc = "netId"
    /\ networkKnown
    /\ \E valid \in BOOLEAN :
          IF valid \/ procs[p].op \notin {"enterMarkets", "exitMarket", "getAccountLiquidity"}
          THEN procs' = [procs EXCEPT ![p].lookup = <<network>>,
                                      ![p].pc = IF procs[p].op \in {"supply", "repayBorrow"}
                                                THEN "borrowBalanceStored" ELSE "chain"]
          ELSE procs' = [procs EXCEPT ![p].pc = "done"]
    /\ UNCHANGED <<single, network, allowance>>

\* the reads and the write of the operations that have no approval
conc_chain(p) ==
    /\ procs[p].pc = "chain"
    /\ procs' = [procs EXCEPT ![p].pc = "done"]
    /\ UNCHANGED <<single, network, allowance>>

\* await eth.read(cTokenAddress, "borrowBalanceStored", ...): supply stops on a debt
conc_borrowBalanceStored(p) ==
    /\ procs[p].pc = "borrowBalanceStored"
    /\ \E balance \in {0, SomeDebt} :
          procs' = [procs EXCEPT ![p].pc =
                        IF procs[p].op = "supply" /\ hasOutstandingBorrow(balance)
                        THEN "done" ELSE "allowance"]
    /\ UNCHANGED <<single, network, allowance>>

\* mutant: an approval another invocation has pending counts as this one's
conc_allowance_shared(p) ==
    /\ procs[p].pc = "allowance"
    /\ procs' = [procs EXCEPT
            ![p].allowanceRead = <<allowance>>,
            ![p].pc = IF /\ notEnough(allowance, procs[p].target)
                         /\ \A q \in Procs \ {p} : procs[q].approve # "pending"
                      THEN "approve" ELSE "final"]
    /\ UNCHANGED <<single, network, allowance>>

\* const allowance = await eth.read(underlyingAddress, "allowance", ...);
\* const notEnough = allowance.lt(target); if (notEnough) { ... }
conc_allowance(p) ==
    /\ procs[p].pc = "allowance"
    /\ procs' = [procs EXCEPT
            ![p].allowanceRead = <<allowance>>,
            ![p].pc = IF notEnough(allowance, procs[p].target)
                      THEN "approve" ELSE "final"]
    /\ UNCHANGED <<single, network, allowance>>

\* await eth.trx(underlyingAddress, "approve", [cTokenAddress, target], ...);
\* supply then awaits approveTx.wait(), repayBorrow calls it and goes on
conc_approve(p) ==
    /\ procs[p].pc = "approve"
    /\ \E sent \in BOOLEAN :
          procs' = [procs EXCEPT
              ![p].approve = IF sent THEN "pending" ELSE "failed",
              ![p].pc = IF ~sent THEN "done"
                        ELSE IF procs[p].op = "supply" THEN "wait" ELSE "final"]
    /\ UNCHANGED <<single, network, allowance>>

\* await approveTx.wait() in supply
conc_wait(p) ==
    /\ procs[p].pc = "wait"
    /\ procs[p].approve \in {"mined", "reverted"}
    /\ procs' = [procs EXCEPT ![p].pc = IF procs[p].approve = "mined"
                                        THEN "final" ELSE "done"]
    /\ UNCHANGED <<single, network, allowance>>

\* return eth.trx(cTokenAddress, "mint" or the repay method, ...)
conc_final(p) ==
    /\ procs[p].pc = "final"
    /\ procs' = [procs EXCEPT ![p].final = "sent", ![p].pc = "done"]
    /\ UNCHANGED <<single, network, allowance>>

\* the chain mines the approval of p: the allowance becomes its amount
conc_Mine(p) ==
    /\ procs[p].approve = "pending"
    /\ procs' = [procs EXCEPT ![p].approve = "mined"]
    /\ allowance' = procs[p].target
    /\ UNCHANGED <<single, network>>

\* the chain reverts the approval of p
conc_Revert(p) ==
    /\ procs[p].approve = "pending"
    /\ procs' = [procs EXCEPT ![p].approve = "reverted"]
    /\ UNCHANGED <<single, network, allowance>>

ConcNext ==
    \/ ResolveNetwork
    \/ \E p \in Procs : conc_Call(p)
    \/ \E p \in Procs : conc_netId(p)
    \/ \E p \in Procs : conc_chain(p)
    \/ \E p \in Procs : conc_borrowBalanceStored(p)
    \/ \E p \in Procs : conc_allowance(p)
    \/ \E p \in Procs : conc_approve(p)
    \/ \E p \in Procs : conc_wait(p)
    \/ \E p \in Procs : conc_final(p)
    \/ \E p \in Procs : conc_Mine(p)
    \/ \E p \in Procs : conc_Revert(p)

SpecConc == Init /\ [][ConcNext]_vars

\* C11: no operation looks an address up by network before the network of
\* the instance is known, whether it is the first call or one of several
\* first calls in flight together.
C11_LookupAfterNetwork ==
    \A p \in Procs :
        /\ procs[p].lookup # <<>> => procs[p].lookup[1] = <<ChainId>>
        /\ procs[p].pc \notin {"idle", "netId"} => network # <<>>

C11_Witness ==
    /\ \A p \in Procs : procs[p].early /\ procs[p].lookup = <<<<ChainId>>>>
    /\ procs[1].op = "enterMarkets"
    /\ procs[2].op = "supply"

\* C19: invocations of supply or repayBorrow in flight together each read
\* the allowance and, when it is below their own target, send their own
\* approval, whatever approval another invocation has sent or has pending.
C19_ApprovalsNotCoordinated ==
    \A p \in Procs :
        /\ procs[p].pc = "approve" =>
              /\ procs[p].allowanceRead[1] < procs[p].target
              /\ ENABLED conc_approve(p)
        /\ (procs[p].allowanceRead # <<>> /\ procs[p].pc # "approve") =>
              (procs[p].approve # "none" <=> procs[p].allowanceRead[1] < procs[p].target)
        /\ procs[p].approve # "none" => procs[p].op \in {"supply", "repayBorrow"}

C19_Witness ==
    /\ \A p \in Procs : procs[p].approve = "pending"
    /\ procs[1].op = "supply"
    /\ procs[2].op = "supply"

\* ---------------------------------------------------------------------
\* The client of the indexing service: getUserBalance, one request at a
\* time; api holds the request's position, what the service answered and
\* how the promise settled.

\* most balances the service lists for a user
MaxRows == 2

\* the user ids the service knows, by lower-case address
IndexedUsers == {<<"0", "x", "c", "a">>}

\* the addresses a caller passes
Users == {<<"0", "x", "C", "a">>, <<"0", "x", "c", "a">>, <<"0", "x", "b", "b">>}

\* String.prototype.toLowerCase on the characters of an address
toLowerCase(str) ==
    [i \in 1..Len(str) |->
        CASE str[i] = "A" -> "a"
          [] str[i] = "B" -> "b"
          [] str[i] = "C" -> "c"
          [] OTHER -> str[i]]

\* chainId 31 is the testnet service, any other the mainnet one
endpoint(chainId) ==
    IF chainId = 31 THEN "https://graphql1.testnet.tropykus.com"
    ELSE "https://graphql1.tropykus.com"

\* findManyUser_balances: the rows the service may hold for a user (amounts
\* as the numbers their strings denote)
BalanceRows ==
    {[name |-> n, is_listed |-> l, deposits |-> d, brute_deposits |-> 1,
      borrows |-> b, brute_borrows |-> 0] :
        n \in {"kDOC", "kRBTC"}, l \in BOOLEAN, d \in {1, 2}, b \in {0, 1}}

\* sequences of at most n rows
RECURSIVE RowSeqs(_)
RowSeqs(n) ==
    IF n = 0 THEN {<<>>}
    ELSE RowSeqs(n - 1) \cup
         {Append(rs, r) : rs \in {s \in RowSeqs(n - 1) : Len(s) = n - 1}, r \in BalanceRows}

\* marketsBalance.filter((mkt) => mkt.markets.is_listed)
RECURSIVE marketsBalanceFiltered(_)
marketsBalanceFiltered(rows) ==
    IF rows = <<>> THEN <<>>
    ELSE IF Head(rows).is_listed
         THEN <<Head(rows)>> \o marketsBalanceFiltered(Tail(rows))
         ELSE marketsBalanceFiltered(Tail(rows))

\* marketsBalanceFiltered.map((mkt) => ({ market, deposits, borrows, ... }))
userBalances(rows) ==
    [i \in 1..Len(marketsBalanceFiltered(rows)) |->
        LET mkt == marketsBalanceFiltered(rows)[i]
        IN [market |-> mkt.name,
            deposits |-> mkt.deposits,
            borrows |-> mkt.borrows,
            depositsInterest |-> mkt.deposits - mkt.brute_deposits,
            borrowInterest |-> mkt.borrows - mkt.brute_borrows]]

\* the variables of the chain operations
chain == <<network, options, allowance, approveTx, pc, op, asset, inputAmount, borrower,
           amount, approvalValue, method, reads, writes, outcome, handle, given, procs,
           networkPromise, marketsCall>>

\* getUserBalance(user_address, chainId)
api_Call ==
    /\ api.pc = "idle"
    /\ \E u \in Users, c \in {30, 31} :
          api' = [NoRequest EXCEPT !.pc = "getUserId", !.user = u, !.chainId = c,
                                   !.url = endpoint(c)]
    /\ UNCHANGED chain

\* const userIdResponse = await getUserId(user_address, chainId): null when
\* the request fails; if (!userIdResponse) throw new Error("User not found");
\* const userId = userIdResponse.data.findFirstUsers.id
api_getUserId ==
    /\ api.pc = "getUserId"
    /\ \E fetched \in BOOLEAN :
          IF ~fetched
          THEN api' = [api EXCEPT !.pc = "done", !.lookup = "failed",
                                  !.settled = "rejected", !.error = "User not found"]
          ELSE IF toLowerCase(api.user) \notin IndexedUsers
          THEN api' = [api EXCEPT !.pc = "done", !.lookup = "no user",
                                  !.settled = "rejected", !.error = "TypeError"]
          ELSE api' = [api EXCEPT !.pc = "findManyUser_balances", !.lookup = "user",
                                  !.userId = <<1>>]
    /\ UNCHANGED chain

\* try { fetch, filter, map; return { data: userBalances } } catch { return null }
api_userBalances ==
    /\ api.pc = "findManyUser_balances"
    /\ \E fetched \in BOOLEAN, rows \in RowSeqs(MaxRows) :
          api' = [api EXCEPT !.pc = "done", !.settled = "resolved",
                             !.value = IF fetched THEN <<userBalances(rows)>> ELSE <<>>]
    /\ UNCHANGED chain

\* the caller has the outcome and may ask again
api_Settle ==
    /\ api.pc = "done"
    /\ api' = NoRequest
    /\ UNCHANGED chain

ApiNext ==
    \/ api_Call
    \/ api_getUserId
    \/ api_userBalances
    \/ api_Settle

SpecApi == Init /\ [][ApiNext]_vars

\* C16: getUserBalance resolves to null, and does not reject, when the
\* user is not found: when the lookup of the user id fails or yields no user.
C16_NullWhenUserNotFound ==
    (api.pc = "done" /\ api.lookup \in {"failed", "no user"}) =>
        (api.settled = "resolved" /\ api.value = <<>>)

\* C25: after construction the instance holds exactly one of the pending
\* promise _networkPromise and the network _network: the promise goes and
\* the network comes in one step, and a network once set stays as it is.
C25_PromiseOrNetwork ==
    /\ [](networkPromise <=> network = <<>>)
    /\ [][network # <<>> => network' = network]_vars
    /\ [][networkPromise' # networkPromise => (~networkPromise' /\ network' # <<>>)]_vars

C25_Witness ==
    /\ ~networkPromise
    /\ network = <<ChainId>>
    /\ \A p \in Procs : procs[p].early /\ procs[p].pc = "done"

\* C22: when a supply on a token market has sent its mint, the allowance
\* of the caller toward the market is at least the amount minted.
C22_AllowanceCoversMint ==
    (running /\ op = "supply" /\ asset = DOC) =>
        \A i \in finalWrites :
            /\ writes[i].args =
                  <<(naturalTimes10(inputAmount)
                       * (IF given.mantissa THEN 1 ELSE Pow10(TokenDecimals))) \div 10>>
            /\ allowance >= writes[i].args[1]

C22_Witness ==
    /\ pc = "done" /\ op = "supply" /\ asset = DOC /\ outcome = "returned"
    /\ Len(writes) = 2
    /\ reads[2].result[1] < writes[2].args[1]
    /\ reads[2].result[1] > 0
    /\ allowance = writes[2].args[1]

\* C23: a repayBorrow of everything (-1) on behalf of a borrower reads the
\* borrow balance of that borrower, not of the caller, for its approval.
C23_BehalfReadsBorrowerBalance ==
    (/\ running /\ op = "repayBorrow"
     /\ inputAmount.text = <<"-", "1">>
     /\ borrower = OtherAccount
     /\ reads # <<>>) =>
        (reads[1].method = "borrowBalanceStored" /\ reads[1].args[1] # userAddress)

\* C24: the four operations agree on the native markets: the final write of
\* each uses the native ABI on the RBTC market and the token ABI elsewhere.
C24_SameNativeMarkets ==
    running =>
        \A i \in finalWrites :
            writes[i].abi = IF asset \in {RBTC, cRBTC} THEN abi_cEther ELSE abi_cErc20

\* ---------------------------------------------------------------------
\* enterMarkets and exitMarket (index.ts 244-290, 314-355), called with no
\* options, one call at a time; marketsCall holds the call's argument, the
\* names as normalized, the writes and how the call ended.

\* most names in the array given to enterMarkets
MaxMarkets == 2

\* the names a caller may give: of an underlying, of a market, unknown, empty
MarketNames == {DOC, RBTC, cDOC, cRBTC, <<"XYZ">>, <<>>}

\* sequences of at most n names
RECURSIVE NameSeqs(_)
NameSeqs(n) ==
    IF n = 0 THEN {<<>>}
    ELSE NameSeqs(n - 1) \cup
         {Append(ns, m) : ns \in {s \in NameSeqs(n - 1) : Len(s) = n - 1}, m \in MarketNames}

\* the argument `markets` / `market`: a string, an array of strings, or neither
MarketInputs ==
    {[type |-> "string", names |-> <<m>>] : m \in MarketNames}
        \cup {[type |-> "array", names |-> ns] : ns \in NameSeqs(MaxMarkets)}
        \cup {[type |-> "other", names |-> <<>>]}

\* the variables of the other usages
others == <<options, allowance, approveTx, pc, op, asset, inputAmount, borrower, amount,
            approvalValue, method, reads, writes, outcome, handle, given, procs, api>>

\* mutant: the prefix is put in front of every name
prefixed_always(name) == <<"c">> \o name

\* if (market[0] !== "c") { market = "c" + market; }
prefixed(name) == IF name # <<>> /\ name[1] = "c" THEN name ELSE <<"c">> \o name

\* the first i names of the array after the loop has passed them
normalized(names, i) == [k \in 1..i |-> prefixed(names[k])]

\* the index at which the loop of enterMarkets throws, 0 if it does not
RECURSIVE unrecognizedFrom(_, _)
unrecognizedFrom(names, i) ==
    IF i > Len(names) THEN 0
    ELSE IF prefixed(names[i]) \notin cTokens THEN i
    ELSE unrecognizedFrom(names, i + 1)

\* a call of enterMarkets or exitMarket, perhaps before the network is known
markets_Call ==
    /\ marketsCall.pc = "idle"
    /\ \E o \in {"enterMarkets", "exitMarket"}, in \in MarketInputs :
          /\ o = "exitMarket" => in.type # "array"
          /\ marketsCall' = [NoMarketsCall EXCEPT !.pc = "netId", !.op = o, !.input = in]
    /\ UNCHANGED <<others, network, networkPromise>>

\* enterMarkets after `await netId(this)`: lines 249-289
enterMarkets ==
    /\ marketsCall.pc = "netId"
    /\ marketsCall.op = "enterMarkets"
    /\ networkKnown
    /\ LET names == marketsCall.input.names
           bad == unrecognizedFrom(names, 1)
       IN IF marketsCall.input.type = "other"
          THEN marketsCall' = [marketsCall EXCEPT !.pc = "done",
                                                  !.outcome = "InvalidMarketsError"]
          ELSE IF bad # 0
          THEN marketsCall' = [marketsCall EXCEPT !.pc = "done",
                                                  !.markets = normalized(names, bad),
                                                  !.outcome = "UnrecognizedMarketError"]
          ELSE \E sent \in BOOLEAN :
                 marketsCall' = [marketsCall EXCEPT
                     !.pc = "done",
                     !.markets = normalized(names, Len(names)),
                     !.outcome = IF sent THEN "returned" ELSE "ChainWriteError",
                     !.writes = <<[to |-> address(netName, <<"Comptroller">>),
                                   method |-> "enterMarkets",
                                   args |-> <<[k \in 1..Len(names) |->
                                                 address(netName, prefixed(names[k]))]>>,
                                   abi |-> abi_Comptroller,
                                   sent |-> sent]>>]
    /\ UNCHANGED <<others, network, networkPromise>>

\* exitMarket after `await netId(this)`: lines 319-354
exitMarket ==
    /\ marketsCall.pc = "netId"
    /\ marketsCall.op = "exitMarket"
    /\ networkKnown
    /\ LET in == marketsCall.input
       IN IF in.type # "string" \/ in.names[1] = <<>>
          THEN marketsCall' = [marketsCall EXCEPT !.pc = "done",
                                                  !.outcome = "InvalidMarketError"]
          ELSE IF prefixed(in.names[1]) \notin cTokens
          THEN marketsCall' = [marketsCall EXCEPT !.pc = "done",
                                                  !.markets = <<prefixed(in.names[1])>>,
                                                  !.outcome = "UnrecognizedMarketError"]
          ELSE \E sent \in BOOLEAN :
                 marketsCall' = [marketsCall EXCEPT
                     !.pc = "done",
                     !.markets = <<prefixed(in.names[1])>>,
                     !.outcome = IF sent THEN "returned" ELSE "ChainWriteError",
                     !.writes = <<[to |-> address(netName, <<"Comptroller">>),
                                   method |-> "exitMarket",
                                   args |-> <<address(netName, prefixed(in.names[1]))>>,
                                   abi |-> abi_Comptroller,
                                   sent |-> sent]>>]
    /\ UNCHANGED <<others, network, networkPromise>>

\* the caller has the outcome and may call again
markets_Settle ==
    /\ marketsCall.pc = "done"
    /\ marketsCall' = NoMarketsCall
    /\ UNCHANGED <<others, network, networkPromise>>

MarketsNext ==
    \/ ResolveNetwork
    \/ markets_Call
    \/ enterMarkets
    \/ exitMarket
    \/ markets_Settle

SpecMarkets == Init /\ [][MarketsNext]_vars

\* the market a name stands for, <<>> if none
marketOf(name) ==
    CASE name \in {DOC, cDOC} -> <<cDOC>>
      [] name \in {RBTC, cRBTC} -> <<cRBTC>>
      [] OTHER -> <<>>

\* C21: enterMarkets takes a string or an array of names, puts the market
\* prefix in front of the names that lack it, fails before any write when one
\* name is not a market, and otherwise sends one enterMarkets to the
\* Comptroller with the markets' addresses in the order given; exitMarket
\* does the same with its one name and rejects what is no string or is empty.
C21_MarketsNormalized ==
    marketsCall.pc = "done" =>
        LET in == marketsCall.input
            w == marketsCall.writes
            comptroller == <<[net |-> "rsk_mainnet", name |-> <<"Comptroller">>]>>
        IN IF \/ in.type = "other"
              \/ (marketsCall.op = "exitMarket" /\ in.names[1] = <<>>)
              \/ \E k \in 1..Len(in.names) : marketOf(in.names[k]) = <<>>
           THEN /\ w = <<>>
                /\ marketsCall.outcome \in {"InvalidMarketsError", "InvalidMarketError",
                                            "UnrecognizedMarketError"}
           ELSE /\ Len(w) = 1
                /\ w[1].to = comptroller
                /\ w[1].method = marketsCall.op
                /\ marketsCall.outcome = "returned" <=> w[1].sent
                /\ IF marketsCall.op = "enterMarkets"
                   THEN /\ Len(w[1].args) = 1
                        /\ Len(w[1].args[1]) = Len(in.names)
                        /\ \A k \in 1..Len(in.names) :
                              w[1].args[1][k] =
                                  <<[net |-> "rsk_mainnet", name |-> marketOf(in.names[k])[1]]>>
                   ELSE w[1].args =
                            <<<<[net |-> "rsk_mainnet", name |-> marketOf(in.names[1])[1]]>>>>

C21_Witness ==
    /\ marketsCall.pc = "done"
    /\ marketsCall.op = "enterMarkets"
    /\ marketsCall.input = [type |-> "array", names |-> <<DOC, cRBTC>>]
    /\ marketsCall.outcome = "returned"
    /\ Len(marketsCall.writes) = 1
    /\ Len(marketsCall.writes[1].args[1]) = 2

====
